---- MODULE Spec2Model ----
(***************************************************************************)
(* A model of three units of the Gramps sources:                           *)
(*   - gen/lib/attribute.py: the Attribute secondary object, its           *)
(*     constructor, its tuple serialization and its accessors;             *)
(*   - gui/editors/displaytabs/citationembedlist.py: the citation tab of   *)
(*     the edit dialogs, one action per handler;                           *)
(*   - utils.py: the modified flag, the photo viewer and the completion    *)
(*     timer of the combo boxes.                                           *)
(* Each unit has its own specification over the shared variable list; the  *)
(* variables of the other units stay as Init left them.                    *)
(***************************************************************************)
EXTENDS Integers, Sequences, FiniteSets, TLC

VARIABLES
    attrs,      \* Attribute objects: id -> instance fields (constructed ones only)
    types,      \* AttributeType objects: id -> [val, string]
    last,       \* the last Attribute call: method, receiver, argument, outcome
    tab,        \* the CitationEmbedList instance fields
    env,        \* what the tab's collaborators hold: open editors, dialogs, rebuilds
    ev,         \* the last tab handler that ran and how it ended
    modifiedFlag, \* utils._modifiedFlag
    combos,     \* per combo box: its object data and its focus-out connections
    gtk,        \* the main loop's pending timeouts and the next timeout id
    call        \* the last utils function that ran and what it did

attrVars == <<attrs, types, last>>
tabVars  == <<tab, env, ev>>
utilVars == <<modifiedFlag, combos, gtk, call>>
vars     == <<attrs, types, last, tab, env, ev, modifiedFlag, combos, gtk, call>>

(***************************************************************************)
(* The objects and payloads the Attribute model ranges over                *)
(***************************************************************************)
AttrOrder   == <<"a", "b">>      \* the Attribute objects, in the order they are constructed
AttrIds     == {AttrOrder[i] : i \in DOMAIN AttrOrder}
None        == "None"            \* Python's None, where a reference may be absent
Texts       == {"", "x"}         \* text payloads
SourceLists == {<<>>, <<"s1">>}  \* the source_list contents an attribute can hold
NoteLists   == {<<>>, <<"n1">>}  \* the note_list contents an attribute can hold

(***************************************************************************)
(* Python values that travel in a serialized tuple.  Every value carries   *)
(* its shape as the name of its single field, so that a value of the wrong *)
(* shape can stand at any position of a tuple.                             *)
(***************************************************************************)
Text(s)  == [text |-> s]
Flag(b)  == [flag |-> b]
Refs(l)  == [srcs |-> l]
Notes(l) == [notes |-> l]
Pair(t)  == [pair |-> t]

IsText(d)  == DOMAIN d = {"text"}
IsFlag(d)  == DOMAIN d = {"flag"}
IsRefs(d)  == DOMAIN d = {"srcs"}
IsNotes(d) == DOMAIN d = {"notes"}
IsPair(d)  == DOMAIN d = {"pair"}

(***************************************************************************)
(* The base components.  Their modules (privacybase, srcbase, notebase,    *)
(* attrtype) are imported by attribute.py and are not part of the sources  *)
(* at hand: each is its own serialization routine and the inverse of it,   *)
(* a field-wise copy on construction, and a decode error on a wrong shape. *)
(***************************************************************************)
EmptyType == [val |-> "EMPTY", string |-> ""]
TypeVals  == {EmptyType, [val |-> "NICKNAME", string |-> ""]}

PrivacyBase_init(source)  == IF source = None THEN FALSE ELSE attrs[source].private
SourceBase_init(source)   == IF source = None THEN <<>> ELSE attrs[source].source_list
NoteBase_init(source)     == IF source = None THEN <<>> ELSE attrs[source].note_list

PrivacyBase_serialize(a)  == Flag(a.private)
SourceBase_serialize(a)   == Refs(a.source_list)
NoteBase_serialize(a)     == Notes(a.note_list)
AttributeType_serialize(t) == Pair(t)

PrivacyBase_accepts(d)    == IsFlag(d)
SourceBase_accepts(d)     == IsRefs(d)
NoteBase_accepts(d)       == IsNotes(d)
AttributeType_accepts(d)  == IsPair(d)

(***************************************************************************)
(* Attribute                                                               *)
(***************************************************************************)
Constructed == DOMAIN attrs

\* The five observable fields of an attribute; type is read through the
\* AttributeType object the attribute refers to.
FieldsOf(self) ==
    [privacy     |-> attrs[self].private,
     source_list |-> attrs[self].source_list,
     note_list   |-> attrs[self].note_list,
     type        |-> types[attrs[self].type],
     value       |-> attrs[self].value]

get_type(self)  == attrs[self].type
get_value(self) == attrs[self].value

Called(op, self, arg, raised) == [op |-> op, self |-> self, arg |-> arg, raised |-> raised]

\* Attribute.__init__, the else branch: a fresh AttributeType and "".
NewType == EmptyType
\* Faulty variant: the value is left unset.
NewValue_unset == Text(None)
NewValue == Text("")

\* Attribute.__init__, the branch taken when source is given.
CopiedTypeRef(source) == attrs[source].type
\* Faulty variant: the copy takes the default value instead of the source's.
CopiedValue_default(source) == Text("")
CopiedValue(source)   == attrs[source].value

Attribute_init(self, source) ==
    /\ Cardinality(Constructed) < Len(AttrOrder)
    /\ self = AttrOrder[Cardinality(Constructed) + 1]
    /\ source = None \/ source \in Constructed
    /\ LET base == [private     |-> PrivacyBase_init(source),
                    source_list |-> SourceBase_init(source),
                    note_list   |-> NoteBase_init(source)]
       IN  IF source # None
           THEN /\ attrs' = attrs @@ (self :> (base @@ [type  |-> CopiedTypeRef(source),
                                                       value |-> CopiedValue(source)]))
                /\ types' = types
           ELSE /\ attrs' = attrs @@ (self :> (base @@ [type |-> self, value |-> NewValue]))
                /\ types' = types @@ (self :> NewType)
    /\ last' = Called("__init__", self, Text(source), "")
    /\ UNCHANGED <<tabVars, utilVars>>

\* Faulty variant: the value is emitted first instead of last.
serialize_valueFirst(self) ==
    <<attrs[self].value,
      PrivacyBase_serialize(attrs[self]),
      SourceBase_serialize(attrs[self]),
      NoteBase_serialize(attrs[self]),
      AttributeType_serialize(types[attrs[self].type])>>

\* Attribute.serialize: the returned tuple.
serialize(self) ==
    <<PrivacyBase_serialize(attrs[self]),
      SourceBase_serialize(attrs[self]),
      NoteBase_serialize(attrs[self]),
      AttributeType_serialize(types[attrs[self].type]),
      attrs[self].value>>

Attribute_serialize(self) ==
    /\ self \in Constructed
    /\ last' = Called("serialize", self, serialize(self), "")
    /\ UNCHANGED <<attrs, types>>
    /\ UNCHANGED <<tabVars, utilVars>>

\* Attribute.unserialize.  The tuple assignment raises on a wrong arity before
\* it binds anything; otherwise it binds self.value, and the base components
\* then decode their elements in order, the first rejection ending the call.
Arity == 5

\* Faulty variant: surplus elements are ignored instead of rejected.
UnpackOk_atLeast(data) == Len(data) >= Arity
UnpackOk(data) == Len(data) = Arity

DecodedUpTo(data) ==
    IF ~PrivacyBase_accepts(data[1]) THEN 0
    ELSE IF ~SourceBase_accepts(data[2]) THEN 1
    ELSE IF ~NoteBase_accepts(data[3]) THEN 2
    ELSE IF ~AttributeType_accepts(data[4]) THEN 3
    ELSE 4

UnserializeRaises(data) ==
    IF ~UnpackOk(data) THEN "ValueError"
    ELSE IF DecodedUpTo(data) < 4 THEN "DecodeError"
    ELSE ""

\* Faulty variant: the value is bound only once every base component has decoded.
UnserializedAttr_valueLast(a, data) ==
    IF ~UnpackOk(data) THEN a
    ELSE LET n == DecodedUpTo(data)
         IN  [a EXCEPT !.value       = IF n = 4 THEN data[5] ELSE @,
                       !.private     = IF n >= 1 THEN data[1].flag ELSE @,
                       !.source_list = IF n >= 2 THEN data[2].srcs ELSE @,
                       !.note_list   = IF n >= 3 THEN data[3].notes ELSE @]

\* Faulty variant: the value is not restored.
UnserializedAttr_keepValue(a, data) ==
    IF ~UnpackOk(data) THEN a
    ELSE LET n == DecodedUpTo(data)
         IN  [a EXCEPT !.private     = IF n >= 1 THEN data[1].flag ELSE @,
                       !.source_list = IF n >= 2 THEN data[2].srcs ELSE @,
                       !.note_list   = IF n >= 3 THEN data[3].notes ELSE @]

UnserializedAttr(a, data) ==
    IF ~UnpackOk(data) THEN a
    ELSE LET n == DecodedUpTo(data)
         IN  [a EXCEPT !.value       = data[5],
                       !.private     = IF n >= 1 THEN data[1].flag ELSE @,
                       !.source_list = IF n >= 2 THEN data[2].srcs ELSE @,
                       !.note_list   = IF n >= 3 THEN data[3].notes ELSE @]

UnserializedType(t, data) ==
    IF UnpackOk(data) /\ DecodedUpTo(data) = 4 THEN data[4].pair ELSE t

Attribute_unserialize(self, data) ==
    /\ self \in Constructed
    /\ attrs' = [attrs EXCEPT ![self] = UnserializedAttr(@, data)]
    /\ types' = [types EXCEPT ![attrs[self].type] = UnserializedType(@, data)]
    /\ last' = Called("unserialize", self, data, UnserializeRaises(data))
    /\ UNCHANGED <<tabVars, utilVars>>

\* Attribute.set_type: self.type.set(val), on the AttributeType object in place.
Attribute_set_type(self, val) ==
    /\ self \in Constructed
    /\ types' = [types EXCEPT ![attrs[self].type] = val]
    /\ last' = Called("set_type", self, Pair(val), "")
    /\ UNCHANGED attrs
    /\ UNCHANGED <<tabVars, utilVars>>

\* Attribute.set_value: self.value = val.
\* Faulty variant: an empty text is replaced by a sentinel.
StoredValue_sentinel(val) == IF val = Text("") THEN Text(None) ELSE val
StoredValue(val) == val

Attribute_set_value(self, val) ==
    /\ self \in Constructed
    /\ attrs' = [attrs EXCEPT ![self].value = StoredValue(val)]
    /\ last' = Called("set_value", self, val, "")
    /\ UNCHANGED types
    /\ UNCHANGED <<tabVars, utilVars>>

(***************************************************************************)
(* The tuples handed to unserialize: every tuple serialize can return, and *)
(* the malformed ones (a wrong arity, or a text where a nested element is  *)
(* expected).                                                              *)
(***************************************************************************)
WellFormed ==
    {<<Flag(p), Refs(sl), Notes(nl), Pair(t), Text(v)>> :
        p \in BOOLEAN, sl \in SourceLists, nl \in NoteLists, t \in TypeVals, v \in Texts}

Junk == Text("junk")

Sample == <<Flag(TRUE), Refs(<<"s1">>), Notes(<<"n1">>), Pair([val |-> "NICKNAME", string |-> ""]), Text("x")>>

WrongArity == {<<>>, SubSeq(Sample, 1, 4), Sample \o <<Text("")>>}

WrongNested == {[Sample EXCEPT ![i] = Junk] : i \in 1..4}

Malformed == WrongArity \cup WrongNested

Datas == WellFormed \cup Malformed

AttrInit ==
    /\ attrs = <<>>
    /\ types = <<>>
    /\ last = Called("", None, Text(""), "")

AttrNext ==
    \/ \E self \in AttrIds, source \in AttrIds \cup {None} : Attribute_init(self, source)
    \/ \E self \in AttrIds : Attribute_serialize(self)
    \/ \E self \in AttrIds, data \in Datas : Attribute_unserialize(self, data)
    \/ \E self \in AttrIds, val \in TypeVals : Attribute_set_type(self, val)
    \/ \E self \in AttrIds, val \in Texts : Attribute_set_value(self, Text(val))

(***************************************************************************)
(* CitationEmbedList                                                       *)
(***************************************************************************)
MaxData    == 2                    \* longest handle list the tab is driven to
MaxEditors == 1                    \* editors open at once that hold the object_added callback
CitationHandles == {"c1", "c2"}    \* handles of the citations in the database
SourceHandles   == {"s1"}          \* handles of the sources in the database

RECURSIVE SeqsUpTo(_, _)
SeqsUpTo(S, n) ==
    IF n = 0 THEN {<<>>}
    ELSE LET shorter == SeqsUpTo(S, n - 1)
         IN  shorter \cup {Append(q, e) : q \in {r \in shorter : Len(r) = n - 1}, e \in S}

Range(q) == {q[i] : i \in DOMAIN q}

\* Objects a selector or a database lookup hands back; NoObject is None.
Obj(kind, handle) == [kind |-> kind, handle |-> handle]
NoObject == Obj("None", "")
Truthy(objct) == objct.kind # "None"
isinstance(objct, class) == objct.kind = class

\* What the selector's run() can return: nothing, a source, a citation, or an
\* object of another class.
Selectable ==
    {NoObject, Obj("Person", "p1")}
        \cup {Obj("Source", h) : h \in SourceHandles}
        \cup {Obj("Citation", h) : h \in CitationHandles}

\* The handle lists a citation-delete or citation-update notification carries.
Notified == {<<>>, <<"c1">>, <<"c2">>, <<"c1", "c2">>, <<"c2", "c2", "c1">>}

\* The handle a drop carries: empty, or the handle of a citation or a source.
Dropped == {""} \cup CitationHandles \cup SourceHandles

\* The database's handle-keyed lookups (gramps.gen.db, not part of the sources
\* at hand): the object of that class with that handle, or None.
get_citation_from_handle(handle) ==
    IF handle \in CitationHandles THEN Obj("Citation", handle) ELSE NoObject
get_source_from_handle(handle) ==
    IF handle \in SourceHandles THEN Obj("Source", handle) ELSE NoObject

\* EditCitation(...): the editor's constructor (gui/editors, not part of the
\* sources at hand) raises WindowActiveError when a window is already open for
\* the record, and opens the editor otherwise.
EditCitation(active) == IF active THEN "WindowActiveError" ELSE ""

\* How a handler ended: the argument it was given, the exception that left it,
\* the warning dialogs it showed, the rebuilds it requested, what the
\* EditCitation constructor did ("not called", "opened", or the exception it
\* raised), whether the editor was given the object_added callback, the merge
\* that was launched and the cell it asked to scroll to.
Ended(name, arg, out, rebuilds, callback) ==
    [name |-> name, arg |-> arg, raised |-> out.raised, dialogs |-> out.dialogs,
     rebuilds |-> rebuilds, editor |-> out.editor,
     callback |-> (callback /\ out.editor = "opened"),
     merged |-> <<>>, scroll |-> <<>>]

\* A handler that returns without reaching an editor or a dialog.
Returned == [raised |-> "", dialogs |-> <<>>, editor |-> "not called"]

Raised(err) == [raised |-> err, dialogs |-> <<>>, editor |-> "not called"]

\* Faulty variant: the handler lets the exception through.
try_pass_reraise(err) ==
    [raised |-> err, dialogs |-> <<>>, editor |-> IF err = "" THEN "opened" ELSE err]

\* try: EditCitation(...)  except WindowActiveError: pass
try_pass(err) ==
    [raised |-> "", dialogs |-> <<>>, editor |-> IF err = "" THEN "opened" ELSE err]

\* Faulty variant: the handler aborts without telling the user.
try_warn_silent(err) ==
    [raised |-> "", dialogs |-> <<>>, editor |-> IF err = "" THEN "opened" ELSE err]

\* try: EditCitation(...)
\* except WindowActiveError: WarningDialog(_("Cannot share this reference"), ...)
try_warn(err) ==
    [raised  |-> "",
     dialogs |-> IF err = "WindowActiveError" THEN <<"Cannot share this reference">> ELSE <<>>,
     editor  |-> IF err = "" THEN "opened" ELSE err]

\* One more editor holds the object_added callback.
WithEditor(e, callback) == [e EXCEPT !.callbacks = IF callback THEN @ + 1 ELSE @]
CanOpen == env.callbacks < MaxEditors

add_button_clicked(active) ==
    /\ active \/ CanOpen
    /\ ev' = Ended("add_button_clicked", <<>>, try_pass(EditCitation(active)), 0, TRUE)
    /\ env' = WithEditor(env, ev'.callback)
    /\ UNCHANGED tab
    /\ UNCHANGED <<attrVars, utilVars>>

\* Faulty variant: the new handle goes to the front of the list.
Prepended(data, value) == <<value>> \o data

\* data.append(value)
Appended(data, value) == Append(data, value)

object_added(value) ==
    /\ env.callbacks > 0
    /\ Len(tab.data) < MaxData
    /\ tab' = [tab EXCEPT !.data = Appended(@, value), !.changed = TRUE]
    /\ env' = [env EXCEPT !.callbacks = @ - 1, !.registered = @ \cup {value}]
    /\ ev' = [Ended("object_added", <<value>>, Returned, 1, FALSE)
                EXCEPT !.scroll = <<Len(tab'.data) - 1>>]
    /\ UNCHANGED <<attrVars, utilVars>>

\* The editor is closed without reporting an object.
EditorClosed ==
    /\ env.callbacks > 0
    /\ env' = [env EXCEPT !.callbacks = @ - 1]
    /\ ev' = Ended("", <<>>, Returned, 0, FALSE)
    /\ UNCHANGED tab
    /\ UNCHANGED <<attrVars, utilVars>>

\* The outcome of share_button_clicked for the object the selector returned.
ShareOutcome(objct, active) ==
    IF ~Truthy(objct) THEN Returned
    ELSE IF isinstance(objct, "Source") THEN try_warn(EditCitation(active))
    ELSE IF isinstance(objct, "Citation") THEN try_warn(EditCitation(active))
    ELSE Raised("ValueError")

share_button_clicked(objct, active) ==
    /\ active \/ CanOpen
    /\ ev' = Ended("share_button_clicked", <<objct.kind>>, ShareOutcome(objct, active), 0, TRUE)
    /\ env' = WithEditor(env, ev'.callback)
    /\ UNCHANGED tab
    /\ UNCHANGED <<attrVars, utilVars>>

\* The outcome of edit_button_clicked and clone_button_clicked for the handle
\* get_selected() returned ("" when no row is selected).
SelectedOutcome(handle, active) ==
    IF handle = "" THEN Returned ELSE try_pass(EditCitation(active))

edit_button_clicked(handle, active) ==
    /\ ev' = Ended("edit_button_clicked", <<handle>>, SelectedOutcome(handle, active), 0, FALSE)
    /\ UNCHANGED <<tab, env>>
    /\ UNCHANGED <<attrVars, utilVars>>

\* Faulty variant: the clone's source handle is put into the list at once.
Cloned_appending(t, source_ref) ==
    IF source_ref = "" THEN t
    ELSE [t EXCEPT !.action = "Citation-Clone", !.data = Append(@, source_ref)]

\* What clone_button_clicked assigns on the tab: self.action, when a row is
\* selected (the block that set self.changed is inside a string literal).
Cloned(t, source_ref) ==
    IF source_ref = "" THEN t ELSE [t EXCEPT !.action = "Citation-Clone"]

clone_button_clicked(source_ref, active) ==
    /\ active \/ CanOpen
    /\ ev' = Ended("clone_button_clicked", <<source_ref>>,
                   SelectedOutcome(source_ref, active), 0, TRUE)
    /\ env' = WithEditor(env, ev'.callback)
    /\ tab' = Cloned(tab, source_ref)
    /\ UNCHANGED <<attrVars, utilVars>>

\* The row paths the tree selection can report: any rows of the list, top down.
RECURSIVE Ascending(_)
Ascending(rows) ==
    IF rows = {} THEN <<>>
    ELSE LET least == CHOOSE r \in rows : \A q \in rows : r <= q
         IN  <<least>> \o Ascending(rows \ {least})

PathLists(data) == {Ascending(rows) : rows \in SUBSET DOMAIN data}

\* for path in pathlist: self.selected_list.append(model.get_value(iter, _HANDLE_COL))
SelectedHandles(data, pathlist) == [i \in DOMAIN pathlist |-> data[pathlist[i]]]

\* if self.selected_list: the four set_sensitive calls; otherwise no button is touched.
Sensitivity(buttons, selected_list) ==
    IF selected_list # <<>>
    THEN [edit  |-> Len(selected_list) = 1,
          clone |-> Len(selected_list) = 1,
          del   |-> Len(selected_list) = 1,
          merge |-> Len(selected_list) = 2]
    ELSE buttons

selection_changed(pathlist) ==
    /\ pathlist \in PathLists(tab.data)
    /\ IF tab.dirty_selection
       THEN tab' = tab
       ELSE tab' = [tab EXCEPT !.selected_list = SelectedHandles(tab.data, pathlist),
                               !.buttons = Sensitivity(@, SelectedHandles(tab.data, pathlist))]
    /\ ev' = Ended("_selection_changed", <<>>, Returned, 0, FALSE)
    /\ UNCHANGED env
    /\ UNCHANGED <<attrVars, utilVars>>

\* The list widget (embeddedlist, not part of the sources at hand) sets
\* dirty_selection while it rebuilds its rows and clears it afterwards.
set_dirty_selection(dirty) ==
    /\ tab.dirty_selection # dirty
    /\ tab' = [tab EXCEPT !.dirty_selection = dirty]
    /\ ev' = Ended("", <<>>, Returned, 0, FALSE)
    /\ UNCHANGED env
    /\ UNCHANGED <<attrVars, utilVars>>

\* Faulty variant: two rows of the same citation are merged like any two.
MergeOutcome_anyTwo(selected_list) ==
    IF Len(selected_list) # 2 THEN "return" ELSE "merge"

\* merge_button_clicked: which of its three ends is taken.
MergeOutcome(selected_list) ==
    IF Len(selected_list) # 2 THEN "return"
    ELSE IF selected_list[1] = selected_list[2] THEN "warn"
    ELSE "merge"

merge_button_clicked ==
    /\ LET sel == tab.selected_list
           end == MergeOutcome(sel)
           out == IF end = "warn"
                  THEN [Returned EXCEPT !.dialogs = <<"Cannot merge this references">>]
                  ELSE Returned
       IN  /\ ev' = [Ended("merge_button_clicked", sel, out, 0, FALSE)
                       EXCEPT !.merged = IF end = "merge" THEN <<sel[1], sel[2]>> ELSE <<>>]
           /\ tab' = IF end = "merge"
                     THEN [tab EXCEPT !.changed = TRUE, !.action = "Citation-Merge"]
                     ELSE tab
    /\ UNCHANGED env
    /\ UNCHANGED <<attrVars, utilVars>>

\* data.remove(handle): the first occurrence goes.
RECURSIVE list_remove(_, _)
list_remove(data, handle) ==
    IF data = <<>> THEN <<>>
    ELSE IF Head(data) = handle THEN Tail(data)
    ELSE <<Head(data)>> \o list_remove(Tail(data), handle)

\* Faulty variant: only the first occurrence of the handle is removed.
RemoveOnce(data, handle) == list_remove(data, handle)

\* while self.data.count(handle) > 0: self.data.remove(handle)
RECURSIVE RemoveWhileCounted(_, _)
RemoveWhileCounted(data, handle) ==
    IF handle \in Range(data) THEN RemoveWhileCounted(list_remove(data, handle), handle)
    ELSE data

\* for handle in del_citation_handle_list: ...
RECURSIVE DeleteEach(_, _)
DeleteEach(data, handles) ==
    IF handles = <<>> THEN data
    ELSE DeleteEach(RemoveWhileCounted(data, Head(handles)), Tail(handles))

citation_delete(del_citation_handle_list) ==
    /\ LET rebuild == \E i \in DOMAIN del_citation_handle_list :
                          del_citation_handle_list[i] \in Range(tab.data)
       IN  ev' = Ended("citation_delete", del_citation_handle_list, Returned,
                       IF rebuild THEN 1 ELSE 0, FALSE)
    /\ tab' = [tab EXCEPT !.data = DeleteEach(@, del_citation_handle_list)]
    /\ UNCHANGED env
    /\ UNCHANGED <<attrVars, utilVars>>

citation_update(upd_citation_handle_list) ==
    /\ LET rebuild == \E i \in DOMAIN upd_citation_handle_list :
                          upd_citation_handle_list[i] \in Range(tab.data)
       IN  ev' = Ended("citation_update", upd_citation_handle_list, Returned,
                       IF rebuild THEN 1 ELSE 0, FALSE)
    /\ UNCHANGED <<tab, env>>
    /\ UNCHANGED <<attrVars, utilVars>>

\* Faulty variant: an object that is not of the expected class is ignored.
DropOutcome_ignore(handle, objct, class, active) ==
    IF handle = "" THEN Returned
    ELSE IF isinstance(objct, class) THEN try_warn(EditCitation(active))
    ELSE Returned

\* The outcome of a drop: nothing for an empty handle, the editor for an object
\* of the expected class, ValueError for anything else.
DropOutcome(handle, objct, class, active) ==
    IF handle = "" THEN Returned
    ELSE IF isinstance(objct, class) THEN try_warn(EditCitation(active))
    ELSE Raised("ValueError")

handle_drag(handle, active) ==
    /\ active \/ CanOpen
    /\ ev' = Ended("_handle_drag", <<handle>>,
                   DropOutcome(handle, get_citation_from_handle(handle), "Citation", active),
                   0, TRUE)
    /\ env' = WithEditor(env, ev'.callback)
    /\ UNCHANGED tab
    /\ UNCHANGED <<attrVars, utilVars>>

handle_extra_type(handle, active) ==
    /\ active \/ CanOpen
    /\ ev' = Ended("handle_extra_type", <<handle>>,
                   DropOutcome(handle, get_source_from_handle(handle), "Source", active),
                   0, TRUE)
    /\ env' = WithEditor(env, ev'.callback)
    /\ UNCHANGED tab
    /\ UNCHANGED <<attrVars, utilVars>>

\* CitationEmbedList.__init__ with the handle list it is given.
TabInitWith(data) ==
    /\ tab = [data |-> data, changed |-> FALSE, action |-> "",
              selected_list |-> <<>>, dirty_selection |-> FALSE,
              buttons |-> [edit |-> FALSE, clone |-> FALSE, del |-> FALSE, merge |-> FALSE]]
    /\ env = [callbacks |-> 0, registered |-> Range(data)]
    /\ ev = Ended("", <<>>, Returned, 0, FALSE)

TabInit == \E data \in SeqsUpTo(CitationHandles, MaxData) : TabInitWith(data)

TabNext ==
    \/ \E active \in BOOLEAN : add_button_clicked(active)
    \/ \E value \in CitationHandles : object_added(value)
    \/ EditorClosed
    \/ \E objct \in Selectable, active \in BOOLEAN : share_button_clicked(objct, active)
    \/ \E handle \in {""} \cup CitationHandles, active \in BOOLEAN :
          edit_button_clicked(handle, active)
    \/ \E source_ref \in {""} \cup CitationHandles, active \in BOOLEAN :
          clone_button_clicked(source_ref, active)
    \/ \E handle \in Dropped, active \in BOOLEAN : handle_drag(handle, active)
    \/ \E handle \in Dropped, active \in BOOLEAN : handle_extra_type(handle, active)
    \/ \E handles \in Notified : citation_delete(handles)
    \/ \E handles \in Notified : citation_update(handles)

\* The handlers of the selection and of the merge button, with the two that
\* change the list under a selection.
SelectionNext ==
    \/ \E pathlist \in PathLists(tab.data) : selection_changed(pathlist)
    \/ \E dirty \in BOOLEAN : set_dirty_selection(dirty)
    \/ merge_button_clicked
    \/ \E handles \in Notified : citation_delete(handles)

\* Every handler of the tab.
AllTabNext ==
    \/ \E active \in BOOLEAN : add_button_clicked(active)
    \/ \E value \in CitationHandles : object_added(value)
    \/ EditorClosed
    \/ \E objct \in Selectable, active \in BOOLEAN : share_button_clicked(objct, active)
    \/ \E handle \in {""} \cup CitationHandles, active \in BOOLEAN :
          edit_button_clicked(handle, active)
    \/ \E source_ref \in {""} \cup CitationHandles, active \in BOOLEAN :
          clone_button_clicked(source_ref, active)
    \/ \E handle \in Dropped, active \in BOOLEAN : handle_drag(handle, active)
    \/ \E handle \in Dropped, active \in BOOLEAN : handle_extra_type(handle, active)
    \/ \E handles \in Notified : citation_delete(handles)
    \/ \E handles \in Notified : citation_update(handles)
    \/ \E pathlist \in PathLists(tab.data) : selection_changed(pathlist)
    \/ \E dirty \in BOOLEAN : set_dirty_selection(dirty)
    \/ merge_button_clicked


(***************************************************************************)
(* utils.py: the modified flag                                             *)
(***************************************************************************)

\* What a utils function did: its result, the dialogs it raised, the child
\* processes it forked, whether it waited for them, the timeout that fired
\* it, and its calls on the combo's entry.
UtilCall(name, arg, result) ==
    [name |-> name, arg |-> arg, result |-> result, dialogs |-> <<>>,
     children |-> <<>>, waited |-> FALSE, fired |-> 0, entry |-> <<>>]

modified ==
    /\ modifiedFlag' = 1
    /\ call' = UtilCall("modified", <<>>, None)
    /\ UNCHANGED <<attrVars, tabVars, combos, gtk>>

clearModified ==
    /\ modifiedFlag' = 0
    /\ call' = UtilCall("clearModified", <<>>, None)
    /\ UNCHANGED <<attrVars, tabVars, combos, gtk>>

\* Faulty variant: the flag is reported inverted.
wasModified_negated(flag) == 1 - flag

wasModified_result(flag) == flag

wasModified ==
    /\ call' = UtilCall("wasModified", <<>>, wasModified_result(modifiedFlag))
    /\ UNCHANGED <<attrVars, tabVars, modifiedFlag, combos, gtk>>

(***************************************************************************)
(* utils.py: view_photo                                                    *)
(***************************************************************************)

\* A command line is a sequence of words and blanks; a registry is what
\* gnome.mime holds for the photo's type: a command for some of the keys.
MimeKeys   == {"view", "open", "edit", "icon-filename"}
Commands   == { <<"eog", " ", "%f">>, <<"gimp">> }
Registries == UNION {[ks -> Commands] : ks \in SUBSET MimeKeys}
Photos     == {[mime |-> "image/jpeg", path |-> p] : p \in {"/a.jpg", "/b.jpg"}}

\* A Python list of words, as opposed to the string Text("").
Words(l) == [words |-> l]

string_split(s) == SelectSeq(s, LAMBDA w : w # " ")

\* The value a key leaves in its variable after the loop over get_keys().
Registered(mime, key) ==
    IF key \in DOMAIN mime THEN Words(string_split(mime[key])) ELSE Text("")

\* The command view_photo goes on with.
Chosen(prog, open, edit) ==
    IF prog = Text("") /\ open = Text("") THEN edit ELSE open

\* for val in prog: a string yields its characters, a list its words.
Iterate(prog) == IF IsText(prog) THEN <<>> ELSE prog.words

Substituted(prog, path) ==
    [i \in DOMAIN Iterate(prog) |->
        IF Iterate(prog)[i] = "%f" THEN path ELSE Iterate(prog)[i]]

\* The child after os.fork(): args[0] raises on an empty list, otherwise the
\* child becomes the program.
Child(args) ==
    [args |-> args, outcome |-> IF args = <<>> THEN "IndexError" ELSE "execvp"]

view_photo(photo, mime) ==
    LET prog == Registered(mime, "view")
        open == Registered(mime, "open")
        edit == Registered(mime, "edit")
        args == Substituted(Chosen(prog, open, edit), photo.path)
        done == UtilCall("view_photo", <<photo, mime>>, None)
    IN  /\ call' = IF prog = Text("") /\ open = Text("") /\ edit = Text("")
                   THEN [done EXCEPT !.dialogs =
                            <<[dialog |-> "GnomeWarningDialog", type |-> photo.mime]>>]
                   ELSE [done EXCEPT !.children = <<Child(args)>>]
        /\ UNCHANGED <<attrVars, tabVars, modifiedFlag, combos, gtk>>

(***************************************************************************)
(* utils.py: the completion timer of a combo box                           *)
(***************************************************************************)
MaxTimers == 4                   \* timeout ids handed out in a run
CompletionDelay == 5             \* milliseconds
ComboIds  == {"k1", "k2"}
NewTexts  == {"a", "B"}          \* what a keystroke inserts

\* The items of a combo's list and the texts its entry can hold, as sequences
\* of characters.
ListItems == << <<"A", "b", " ", "[", "I", "1", "]">>, <<>>, <<"B", "a">> >>
Typed     == { <<>>, <<"a">>, <<"a", "B">>, <<"B">>, <<"b", "b">> }

\* Object data that was never set reads as None; 0 stands for it, and both
\* are false in a condition.
NoData == 0

timeout_add(timeouts, id, combo) ==
    timeouts \cup {[id |-> id, ms |-> CompletionDelay, combo |-> combo]}

\* Faulty variant: the timeout stays in the main loop.
timeout_remove_ignored(timeouts, id) == timeouts

timeout_remove(timeouts, id) == {t \in timeouts : t.id # id}

\* "Nuke the current timer", in both functions.
Nuked(timeouts, timer) ==
    IF timer # NoData THEN timeout_remove(timeouts, timer) ELSE timeouts

combo_insert_text(combo, new_text) ==
    /\ gtk.next_id <= MaxTimers
    /\ LET first == combos[combo].signal_set = NoData
           timer == gtk.next_id
       IN  /\ combos' = [combos EXCEPT
                  ![combo] = [signal_set |-> 1,
                              timer      |-> timer,
                              focus_out  |-> IF first THEN @.focus_out + 1
                                                      ELSE @.focus_out]]
           /\ gtk' = [timeouts |-> timeout_add(Nuked(gtk.timeouts, combos[combo].timer),
                                               timer, combo),
                      next_id  |-> gtk.next_id + 1]
           /\ call' = UtilCall("combo_insert_text", <<combo, new_text>>, None)
    /\ UNCHANGED <<attrVars, tabVars, modifiedFlag>>

\* The entry of a combo lost the focus: every connected handler runs.
combo_lost_focus(combo) ==
    /\ combos[combo].focus_out > 0
    /\ call' = [UtilCall("combo_lost_focus", <<combo>>, None) EXCEPT
                  !.entry = [i \in 1 .. combos[combo].focus_out |->
                                [op |-> "select_region", arg |-> <<0, 0>>]]]
    /\ UNCHANGED <<attrVars, tabVars, modifiedFlag, combos, gtk>>

Lower(c) ==
    CASE c = "A" -> "a" [] c = "B" -> "b" [] c = "I" -> "i" [] OTHER -> c

string_lower(s) == [i \in DOMAIN s |-> Lower(s[i])]

\* The highest 0-based index of the character, -1 if it is absent.
string_rfind(s, c) ==
    LET hits == {i \in DOMAIN s : s[i] = c}
    IN  IF hits = {} THEN -1
        ELSE (CHOOSE i \in hits : \A j \in hits : j <= i) - 1

RECURSIVE string_rstrip(_)
string_rstrip(s) ==
    IF s # <<>> /\ s[Len(s)] = " " THEN string_rstrip(SubSeq(s, 1, Len(s) - 1)) ELSE s

\* The label without its trailing '[id]'.
Label(label_text) ==
    LET index == string_rfind(label_text, "[")
    IN  IF index > 0 THEN string_rstrip(SubSeq(label_text, 1, index)) ELSE label_text

\* string.find(s, sub) == 0
FoundAtStart(s, sub) == Len(sub) <= Len(s) /\ SubSeq(s, 1, Len(sub)) = sub

\* The walk over the list items from item i on: the calls made on the entry.
RECURSIVE Completion(_, _, _)
Completion(typed, items, i) ==
    IF i > Len(items) THEN <<>>
    ELSE IF items[i] = <<>> THEN Completion(typed, items, i + 1)
    ELSE IF string_lower(typed) = string_lower(Label(items[i])) THEN <<>>
    ELSE IF FoundAtStart(string_lower(Label(items[i])), string_lower(typed))
         THEN <<[op |-> "set_text", arg |-> Label(items[i])],
                [op |-> "set_position", arg |-> Len(typed)],
                [op |-> "select_region", arg |-> <<Len(typed), -1>>]>>
    ELSE Completion(typed, items, i + 1)

\* A pending timeout fires: the main loop runs the callback and, as it
\* returns None, drops the timeout.
combo_timer_callback(t, typed) ==
    /\ t \in gtk.timeouts
    /\ gtk' = [gtk EXCEPT !.timeouts =
                  {u \in Nuked(gtk.timeouts, combos[t.combo].timer) : u.id # t.id}]
    /\ call' = [UtilCall("combo_timer_callback", <<t.combo>>, None) EXCEPT
                  !.fired = t.id,
                  !.entry = IF typed = <<>> THEN <<>>
                            ELSE Completion(typed, ListItems, 1)]
    /\ UNCHANGED <<attrVars, tabVars, modifiedFlag, combos>>

UtilInit ==
    /\ modifiedFlag = 0
    /\ combos = [c \in ComboIds |-> [signal_set |-> NoData, timer |-> NoData, focus_out |-> 0]]
    /\ gtk = [timeouts |-> {}, next_id |-> 1]
    /\ call = UtilCall("", <<>>, None)

UtilsNext ==
    \/ modified
    \/ clearModified
    \/ wasModified
    \/ \E photo \in Photos, mime \in Registries : view_photo(photo, mime)

ComboNext ==
    \/ \E combo \in ComboIds, new_text \in NewTexts : combo_insert_text(combo, new_text)
    \/ \E combo \in ComboIds : combo_lost_focus(combo)
    \/ \E t \in gtk.timeouts, typed \in Typed : combo_timer_callback(t, typed)

\* The attributes on their own: the tab holds an empty list and is not driven.
AttributeInit == AttrInit /\ TabInitWith(<<>>) /\ UtilInit

AttributeSpec == AttributeInit /\ [][AttrNext]_vars

\* The tab on its own: no attribute is constructed.
CitationInit == AttrInit /\ TabInit /\ UtilInit

CitationSpec == CitationInit /\ [][TabNext]_vars

SelectionSpec == CitationInit /\ [][SelectionNext]_vars

TabSpec == CitationInit /\ [][AllTabNext]_vars

\* The utilities on their own.
UtilsSpec == AttributeInit /\ [][UtilsNext]_vars

ComboSpec == AttributeInit /\ [][ComboNext]_vars


(***************************************************************************)
(* Properties of Attribute (AttributeSpec)                                 *)
(***************************************************************************)

\* C1: unserialize(x.serialize()), on any attribute y, leaves y with the type,
\* value, privacy, source_list and note_list that x had.
C1_RoundTrip ==
    [][\A x \in AttrIds, y \in AttrIds :
          (/\ x \in Constructed
           /\ last'.op = "unserialize"
           /\ last'.self = y
           /\ last'.arg = serialize(x))
          => /\ last'.raised = ""
             /\ FieldsOf(y)' = FieldsOf(x)]_vars

C1_Witness ==
    /\ last.op = "unserialize"
    /\ last.raised = ""
    /\ last.arg = Sample
    /\ \E x \in Constructed \ {last.self} :
          /\ attrs[x].type # attrs[last.self].type
          /\ serialize(x) = last.arg
          /\ FieldsOf(x) = FieldsOf(last.self)

\* C2: serialize returns exactly five elements, in the order privacy data,
\* source-list data, note-list data, type data, value, and changes no field;
\* unserialize restores each field from the same position.
C2_TupleLayout ==
    [][/\ last'.op = "serialize" =>
            LET self == last'.self
                data == last'.arg
            IN  /\ Len(data) = 5
                /\ data[1] = PrivacyBase_serialize(attrs[self])
                /\ data[2] = SourceBase_serialize(attrs[self])
                /\ data[3] = NoteBase_serialize(attrs[self])
                /\ data[4] = AttributeType_serialize(types[attrs[self].type])
                /\ data[5] = attrs[self].value
                /\ attrs' = attrs
                /\ types' = types
       /\ (last'.op = "unserialize" /\ last'.raised = "") =>
            LET self == last'.self
                data == last'.arg
            IN  /\ Len(data) = 5
                /\ PrivacyBase_serialize(attrs'[self]) = data[1]
                /\ SourceBase_serialize(attrs'[self]) = data[2]
                /\ NoteBase_serialize(attrs'[self]) = data[3]
                /\ AttributeType_serialize(types'[attrs'[self].type]) = data[4]
                /\ attrs'[self].value = data[5]]_vars

C2_Witness ==
    /\ last.op = "serialize"
    /\ last.arg = Sample

\* C3: Attribute(source=a) has the privacy, source_list, note_list, type and
\* value of a, and a keeps all five.
C3_CopyConstruct ==
    [][\A a \in AttrIds, b \in AttrIds :
          (last'.op = "__init__" /\ last'.self = b /\ last'.arg = Text(a))
          => /\ FieldsOf(b)' = FieldsOf(a)
             /\ FieldsOf(a)' = FieldsOf(a)]_vars

C3_Witness ==
    /\ last.op = "__init__"
    /\ last.arg # Text(None)
    /\ serialize(last.arg.text) = Sample
    /\ FieldsOf(last.self) = FieldsOf(last.arg.text)

\* C4: after set_value(v), get_value() is v, for the empty text as for any other.
C4_SetGetValue ==
    [][\A self \in AttrIds :
          (last'.op = "set_value" /\ last'.self = self)
          => get_value(self)' = last'.arg]_vars

C4_Witness ==
    /\ last.op = "set_value"
    /\ last.arg = Text("")
    /\ get_value(last.self) = Text("")
    /\ attrs[last.self].private

\* C5: an attribute constructed without a source refers to an AttributeType of
\* its own that is the empty type, and its value is the empty text.
C5_DefaultConstruct ==
    [][\A self \in AttrIds :
          (last'.op = "__init__" /\ last'.self = self /\ last'.arg = Text(None))
          => /\ get_type(self)' \in DOMAIN types'
             /\ get_type(self)' \notin DOMAIN types
             /\ types'[get_type(self)'] = EmptyType
             /\ get_value(self)' = Text("")]_vars

C5_Witness ==
    /\ last.op = "__init__"
    /\ last.arg = Text(None)
    /\ Constructed = AttrIds
    /\ FieldsOf(last.self).type = EmptyType
    /\ FieldsOf(last.self).value = Text("")

\* C6: unserialize of a tuple of the wrong arity, or with a nested element of
\* the wrong shape, ends in an error that leaves the call; it never returns.
C6_MalformedRaises ==
    [][(last'.op = "unserialize" /\ last'.arg \in Malformed) => last'.raised # ""]_vars

C6_Witness ==
    /\ last.op = "unserialize"
    /\ last.arg \in WrongNested
    /\ last.raised = "DecodeError"

(***************************************************************************)
(* Properties of CitationEmbedList (CitationSpec)                          *)
(***************************************************************************)

\* C7: when the editor's constructor raises WindowActiveError in
\* add_button_clicked, edit_button_clicked or clone_button_clicked, the handler
\* returns normally, shows no dialog, and leaves data and changed as they were.
C7_SilentAbort ==
    [][(/\ ev'.name \in {"add_button_clicked", "edit_button_clicked", "clone_button_clicked"}
        /\ ev'.editor = "WindowActiveError")
       => /\ ev'.raised = ""
          /\ ev'.dialogs = <<>>
          /\ tab'.data = tab.data
          /\ tab'.changed = tab.changed]_vars

C7_Witness ==
    /\ ev.name = "clone_button_clicked"
    /\ ev.editor = "WindowActiveError"
    /\ ev.raised = ""
    /\ tab.changed
    /\ Len(tab.data) = MaxData

\* C8: when the editor's constructor raises WindowActiveError in
\* share_button_clicked (a Source or a Citation selected), _handle_drag or
\* handle_extra_type, exactly one "Cannot share this reference" warning is
\* shown, the handler returns normally, and data is as it was.
C8_WarnOnShare ==
    [][(/\ ev'.name \in {"share_button_clicked", "_handle_drag", "handle_extra_type"}
        /\ ev'.editor = "WindowActiveError")
       => /\ ev'.dialogs = <<"Cannot share this reference">>
          /\ ev'.raised = ""
          /\ tab'.data = tab.data]_vars

C8_Witness ==
    /\ ev.name = "share_button_clicked"
    /\ ev.arg = <<"Source">>
    /\ ev.editor = "WindowActiveError"
    /\ ev.dialogs = <<"Cannot share this reference">>
    /\ tab.data # <<>>

\* The argument of a sharing or dragging handler is of the class it expects.
Expected(name, arg) ==
    CASE name = "share_button_clicked" -> arg \in {"Source", "Citation"}
      [] name = "_handle_drag"         -> arg \in CitationHandles
      [] name = "handle_extra_type"    -> arg \in SourceHandles

\* The argument of a sharing or dragging handler is empty.
Empty(name, arg) ==
    IF name = "share_button_clicked" THEN arg = "None" ELSE arg = ""

\* C9: in share_button_clicked, _handle_drag and handle_extra_type, a non-empty
\* selection or handle whose object is not of the expected class raises
\* ValueError, with no editor opened and data unchanged; an empty one is a no-op.
C9_ValueError ==
    [][ev'.name \in {"share_button_clicked", "_handle_drag", "handle_extra_type"} =>
          /\ (~Empty(ev'.name, ev'.arg[1]) /\ ~Expected(ev'.name, ev'.arg[1]))
                => /\ ev'.raised = "ValueError"
                   /\ ev'.editor = "not called"
                   /\ tab'.data = tab.data
          /\ Empty(ev'.name, ev'.arg[1])
                => /\ ev'.raised = ""
                   /\ ev'.editor = "not called"
                   /\ ev'.dialogs = <<>>
                   /\ tab' = tab
                   /\ env' = env]_vars

C9_Witness ==
    /\ ev.name = "_handle_drag"
    /\ ev.arg = <<"s1">>
    /\ ev.raised = "ValueError"
    /\ tab.data # <<>>

\* C10: object_added(value) appends value at the end of data (one entry more,
\* the earlier ones in place), registers the handle, sets changed and requests
\* exactly one rebuild.
C10_ObjectAdded ==
    [][ev'.name = "object_added" =>
          /\ Len(tab'.data) = Len(tab.data) + 1
          /\ SubSeq(tab'.data, 1, Len(tab.data)) = tab.data
          /\ tab'.data[Len(tab'.data)] = ev'.arg[1]
          /\ ev'.arg[1] \in env'.registered
          /\ env.registered \subseteq env'.registered
          /\ tab'.changed
          /\ ev'.rebuilds = 1]_vars

C10_Witness ==
    /\ ev.name = "object_added"
    /\ ev.arg = <<"c2">>
    /\ tab.data = <<"c1", "c2">>
    /\ tab.changed

\* C11: data changes only in object_added, which appends and needs an editor
\* that holds the callback, and in citation_delete, which removes; every other
\* handler of the tab leaves it as it was.
C11_OnlyAddedOrDeleted ==
    [][/\ tab'.data # tab.data => ev'.name \in {"object_added", "citation_delete"}
       /\ ev'.name = "object_added" =>
             /\ env.callbacks > 0
             /\ tab'.data = Append(tab.data, ev'.arg[1])
       /\ ev'.name = "citation_delete" =>
             /\ Len(tab'.data) <= Len(tab.data)
             /\ Range(tab'.data) \subseteq Range(tab.data)]_vars

C11_Witness ==
    /\ ev.name = "clone_button_clicked"
    /\ ev.editor = "opened"
    /\ ev.callback
    /\ tab.action = "Citation-Clone"
    /\ tab.selected_list = <<"c1">>
    /\ tab.data = <<"c1">>
    /\ ~tab.changed

C13_Merge ==
    [][ev'.name = "merge_button_clicked" =>
          LET sel == tab.selected_list
          IN  IF Len(sel) # 2
              THEN tab' = tab /\ ev'.dialogs = <<>> /\ ev'.merged = <<>>
              ELSE IF sel[1] = sel[2]
              THEN /\ Len(ev'.dialogs) = 1
                   /\ tab'.changed = tab.changed
                   /\ ev'.merged = <<>>
              ELSE /\ tab'.changed
                   /\ tab'.action = "Citation-Merge"
                   /\ ev'.merged = <<sel[1], sel[2]>>]_vars

C13_Witness ==
    /\ ev.name = "merge_button_clicked"
    /\ ev.merged = <<"c2", "c1">>
    /\ tab.selected_list = <<"c2", "c1">>
    /\ tab.action = "Citation-Merge"
    /\ tab.changed

\* C14: a _selection_changed call made while dirty_selection is false leaves
\* edit, clone and delete sensitive exactly when one row is selected and merge
\* exactly when two are; made while dirty_selection is true it changes neither
\* selected_list nor a button.
C14_ButtonsFollowSelection ==
    [][ev'.name = "_selection_changed" =>
          IF tab.dirty_selection
          THEN /\ tab'.selected_list = tab.selected_list
               /\ tab'.buttons = tab.buttons
          ELSE /\ tab'.buttons.edit  = (Len(tab'.selected_list) = 1)
               /\ tab'.buttons.clone = (Len(tab'.selected_list) = 1)
               /\ tab'.buttons.del   = (Len(tab'.selected_list) = 1)
               /\ tab'.buttons.merge = (Len(tab'.selected_list) = 2)]_vars

(***************************************************************************)
(* Further properties of Attribute (AttributeSpec)                         *)
(***************************************************************************)

\* One of the two attributes was copy-constructed from the other: only
\* Attribute(source=...) makes an attribute refer to the AttributeType object
\* of another one, and no method rebinds self.type afterwards.
CopyPair(x, y) == x # y /\ get_type(x) = get_type(y)

\* C17: after b = Attribute(source=a), a set_type or set_value call on either
\* of the two leaves the type and the value the other one reports unchanged.
C17_CopyIndependent ==
    [][\A x \in AttrIds, y \in AttrIds :
          (/\ x \in Constructed /\ y \in Constructed
           /\ CopyPair(x, y)
           /\ last'.op \in {"set_type", "set_value"}
           /\ last'.self = x)
          => /\ types'[get_type(y)'] = types[get_type(y)]
             /\ get_value(y)' = get_value(y)]_vars

C15_ModifiedFlag ==
    /\ modifiedFlag = 0
    /\ [][/\ call'.name = "modified" => modifiedFlag' = 1
          /\ call'.name = "clearModified" => modifiedFlag' = 0
          /\ call'.name \notin {"modified", "clearModified"} => modifiedFlag' = modifiedFlag
          /\ call'.name = "wasModified" => call'.result = modifiedFlag]_vars

C15_Witness ==
    /\ call.name = "wasModified"
    /\ call.result = 1
    /\ modifiedFlag = 1

Pending(timeouts, combo) == {t \in timeouts : t.combo = combo}

\* C16: a combo never has more than one completion timeout pending.  A
\* combo_insert_text call removes the timeout stored for the combo and then
\* schedules and stores a new one of 5 ms; it connects the focus-out handler
\* on the first call for the combo only.  The callback that runs is the one
\* of the timeout the last combo_insert_text call stored, and it leaves no
\* timeout pending for the combo.
C16_OneTimer ==
    [][\A combo \in ComboIds :
          /\ Cardinality(Pending(gtk'.timeouts, combo)) <= 1
          /\ (call'.name = "combo_insert_text" /\ call'.arg[1] = combo)
             => /\ \A t \in gtk'.timeouts : t.id # combos[combo].timer
                /\ Pending(gtk'.timeouts, combo) =
                      {[id |-> combos'[combo].timer, ms |-> 5, combo |-> combo]}
                /\ combos'[combo].timer \notin {t.id : t \in gtk.timeouts}
                /\ combos'[combo].focus_out = 1
                /\ combos[combo].signal_set # NoData
                   => combos'[combo].focus_out = combos[combo].focus_out
          /\ (call'.name = "combo_timer_callback" /\ call'.arg[1] = combo)
             => /\ call'.fired = combos[combo].timer
                /\ Pending(gtk'.timeouts, combo) = {}]_vars

C16_Witness ==
    /\ call.name = "combo_timer_callback"
    /\ call.arg = <<"k1">>
    /\ call.fired = 3
    /\ combos["k1"] = [signal_set |-> 1, timer |-> 3, focus_out |-> 1]
    /\ combos["k2"].timer = NoData
    /\ gtk.timeouts = {}
    /\ call.entry # <<>>

ViewerKeys == {"view", "open", "edit"}

\* C19: when a command is registered for one of 'view', 'open' and 'edit',
\* view_photo raises no dialog and forks one child, which executes a
\* non-empty command line: the words of a registered command with '%f'
\* replaced by the photo's path; the parent does not wait for it.  When none
\* is registered, it raises the warning dialog and forks no child.
C19_ViewPhoto ==
    [][call'.name = "view_photo" =>
          LET photo == call'.arg[1]
              mime  == call'.arg[2]
          IN  IF ViewerKeys \cap DOMAIN mime # {}
              THEN /\ call'.dialogs = <<>>
                   /\ Len(call'.children) = 1
                   /\ call'.children[1].outcome = "execvp"
                   /\ call'.children[1].args # <<>>
                   /\ \E key \in ViewerKeys \cap DOMAIN mime :
                         call'.children[1].args =
                            Substituted(Words(string_split(mime[key])), photo.path)
                   /\ ~call'.waited
              ELSE /\ Len(call'.dialogs) = 1
                   /\ call'.children = <<>>]_vars

====
